---- MODULE Spec2Model ----
(***************************************************************************)
(* The motion-command execution core of the stretch driver node:           *)
(*   - JointTrajectoryAction.execute_cb      (point-by-point path)         *)
(*   - JointTrajectoryAction.execute_trajectory (interpolator path)        *)
(*   - StretchBodyNode.change_mode and the read/write gate                 *)
(*   - the stop handlers, the periodic state task, the velocity callback   *)
(* run by a two-thread executor.  A callback is a frame on the call stack  *)
(* of the executor thread that runs it; rclpy.spin_once inside the poll    *)
(* loop of execute_cb runs one more callback on top of the frame that      *)
(* yielded.                                                                *)
(***************************************************************************)
EXTENDS Integers, Sequences, FiniteSets, TLC

\* ---------------------------------------------------------------- bounds
MaxGoals == 2      \* goal requests accepted in one behaviour
MaxPoints == 2     \* points of a trajectory
MaxDepth == 2      \* callback frames on one thread (spin_once nesting)
MaxCallbacks == 3  \* callbacks the executor serves in one behaviour
TickSeconds == 11  \* seconds the clock advances in one Tick
MaxJoints == 5     \* joint names of a trajectory given to merge_arm_joints

\* ------------------------------------------------------ program constants
NumThreads == 2               \* MultiThreadedExecutor(num_threads=2)
default_goal_timeout_s == 10  \* self.default_goal_timeout_s = 10.0

Threads == 1..NumThreads
GoalIds == 1..MaxGoals

VARIABLES
    stacks,          \* per executor thread: the stack of callback frames
    robot_mode,      \* self.robot_mode
    origin_set,      \* self.mobile_base_manipulation_origin is not None
    num_r,           \* robot_mode_rwlock: number of shared holders
    w_held,          \* robot_mode_rwlock: exclusive access is held
    stop_lock,       \* robot_stop_lock is held
    stop_the_robot,  \* self.stop_the_robot
    goal_handle,     \* JointTrajectoryAction.goal_handle (0: None)
    result,          \* JointTrajectoryAction.result.error_code
    hstatus,         \* per goal: the state of its goal handle
    playing,         \* robot: a trajectory is being played back
    velocity,        \* self.linear_velocity_mps / angular_velocity_radps
    leaked,          \* shared holds never released (velocity callback)
    ngoals,          \* goal requests received so far
    ncalls,          \* callbacks served so far
    trajectory,      \* merge_arm_joints: the trajectory it is called with
    new_trajectory   \* merge_arm_joints: what the call has produced

\* The argument and the outcome of a call of merge_arm_joints.
mvars == <<trajectory, new_trajectory>>

vars == <<stacks, robot_mode, origin_set, num_r, w_held, stop_lock,
          stop_the_robot, goal_handle, result, hstatus, playing, velocity,
          leaked, ngoals, ncalls, trajectory, new_trajectory>>

\* ------------------------------------------------------------ joint names
\* The command groups in the order execute_cb lists them.
CommandGroups ==
    <<"telescoping", "lift", "mobile_base", "head_pan", "head_tilt",
      "wrist_yaw", "gripper">>

ArmSegments == {"joint_arm_l0", "joint_arm_l1", "joint_arm_l2", "joint_arm_l3"}

\* The joint names a command group owns (disjoint subsets).
GroupJoints(c) ==
    CASE c = "telescoping" -> {"wrist_extension"} \cup ArmSegments
      [] c = "lift"        -> {"joint_lift"}
      [] c = "mobile_base" -> {"translate_mobile_base", "rotate_mobile_base"}
      [] c = "head_pan"    -> {"joint_head_pan"}
      [] c = "head_tilt"   -> {"joint_head_tilt"}
      [] c = "wrist_yaw"   -> {"joint_wrist_yaw"}
      [] c = "gripper"     -> {"gripper_aperture"}

Range(s) == {s[i] : i \in 1..Len(s)}

GroupSet == Range(CommandGroups)

\* CommandGroup.update: the group claims the commanded names it owns and
\* rejects a virtual joint commanded together with its constituents.
GroupUpdate(c, names) ==
    ~(c = "telescoping" /\ "wrist_extension" \in Range(names)
                        /\ Range(names) \cap ArmSegments # {})

\* CommandGroup.get_num_valid_commands: the names the group claimed.
NumValidCommands(c, names) ==
    Cardinality({i \in 1..Len(names) : names[i] \in GroupJoints(c)})

\* The groups that claimed at least one commanded name.
ActiveGroups(names) == {c \in GroupSet : NumValidCommands(c, names) > 0}

RECURSIVE SumOver(_, _)
SumOver(S, names) ==
    IF S = {} THEN 0
    ELSE LET c == CHOOSE x \in S : TRUE
         IN  NumValidCommands(c, names) + SumOver(S \ {c}, names)

\* The joint-name lists a goal request carries.
GoalNameChoices ==
    { <<"joint_lift", "joint_arm_l0", "joint_arm_l1", "joint_arm_l2", "joint_arm_l3">>,
      <<"wrist_extension", "joint_arm_l0">>,
      <<"joint_lift", "bogus_joint">>,
      <<>> }

\* -------------------------------------------------------------- frames
NewFrame(op, pc, g, names, npts, arg) ==
    [op |-> op, pc |-> pc, g |-> g, names |-> names, npts |-> npts,
     pt |-> 0, pushes |-> 0, all_reached |-> FALSE, elapsed |-> 0,
     stopped |-> FALSE, exit |-> "none", code |-> "SUCCESSFUL", arg |-> arg]

Depth(t) == Len(stacks[t])
Top(t) == stacks[t][Len(stacks[t])]
WithTop(t, f) == [stacks EXCEPT ![t] = [@ EXCEPT ![Len(@)] = f]]
Pushed(t, f) == [stacks EXCEPT ![t] = Append(@, f)]
Popped(t) == [stacks EXCEPT ![t] = SubSeq(@, 1, Len(@) - 1)]

Running(t, op, pc) ==
    /\ Depth(t) > 0
    /\ Top(t).op = op
    /\ Top(t).pc = pc

\* A thread takes a new callback when it is idle (the executor hands the
\* callback to the first idle worker) or when its execute_cb is inside
\* rclpy.spin_once.
CanDispatch(t) ==
    /\ ncalls < MaxCallbacks
    /\ \/ /\ Depth(t) = 0
          /\ \A u \in Threads : u < t => Depth(u) > 0
       \/ /\ Depth(t) > 0
          /\ Depth(t) < MaxDepth
          /\ Top(t).op = "goal"
          /\ Top(t).pc = "spin"

\* JointTrajectory(): no joint names, no points.
EmptyTrajectory == [joint_names |-> <<>>, points |-> <<>>]

\* merge_arm_joints has not been called.
NotCalled == [kind |-> "not_called", trajectory |-> EmptyTrajectory]

InitModes == {"position", "navigation", "manipulation"}

Init ==
    /\ stacks = [t \in Threads |-> <<>>]
    /\ robot_mode \in InitModes
    /\ origin_set = (robot_mode = "manipulation")
    /\ num_r = 0
    /\ w_held = FALSE
    /\ stop_lock = FALSE
    /\ stop_the_robot = FALSE
    /\ goal_handle = 0
    /\ result = "SUCCESSFUL"
    /\ hstatus = [g \in GoalIds |-> "idle"]
    /\ playing = FALSE
    /\ velocity = 0
    /\ leaked = 0
    /\ ngoals = 0
    /\ ncalls = 0
    /\ trajectory = EmptyTrajectory
    /\ new_trajectory = NotCalled

\* ------------------------------------------------------------ the gate
\* robot_mode_rwlock (RWLock): acquire_read returns when no transition holds
\* exclusive access; acquire_write returns when no callback holds shared
\* access and no other transition holds exclusive access.
CanAcquireRead == ~w_held

CanAcquireWrite == num_r = 0 /\ ~w_held

\* ------------------------------------------------------ goal handle, result
\* ServerGoalHandle.is_active (is_cancel_requested implies it).
IsActive(h) == hstatus[h] \in {"executing", "canceling"}

IsCancelRequested(h) == hstatus[h] = "canceling"

\* invalid_joints_callback / invalid_goal_callback /
\* goal_tolerance_violated_callback: all three write the shared result and
\* abort the handle self.goal_handle names, when that handle is active.
ResultAfterAbort(code) == IF IsActive(goal_handle) THEN code ELSE result

HstatusAfterAbort ==
    IF IsActive(goal_handle)
    THEN [hstatus EXCEPT ![goal_handle] = "aborted"]
    ELSE hstatus

\* success_callback: writes the shared result and marks the handle
\* self.goal_handle names succeeded, unconditionally.
HstatusAfterSuccess == [hstatus EXCEPT ![goal_handle] = "succeeded"]

Leave(f, how) == [f EXCEPT !.pc = "ret", !.exit = how]

\* The frame of an execute_cb keeps in code the error code this execution
\* itself last wrote into self.result ("none" until it writes one).
Wrote(f, code) == [f EXCEPT !.code = code]

\* The three abort callbacks write only when the handle is active.
WroteIfActive(f, code) == IF IsActive(goal_handle) THEN Wrote(f, code) ELSE f

TimedOut(f) == f.elapsed > default_goal_timeout_s

\* -------------------------------------------------- execute_cb (position)
\* The points of a goal request: every point has as many positions as the
\* goal has joint names, or some point has not.
PointLengths(npts) ==
    IF npts > 0 THEN {"lengths_ok", "lengths_differ"} ELSE {"lengths_ok"}

\* execute_cb up to the gate: the mode decides the path; the position path
\* stores the handle and clears the stop flag under the stop lock; the
\* interpolator path (execute_trajectory) takes the stop lock, clears the
\* flag and keeps the lock while it waits for the gate.
ExecuteCbStart(t) ==
    /\ ngoals < MaxGoals
    /\ CanDispatch(t)
    /\ ncalls' = ncalls + 1
    /\ ~stop_lock
    /\ \E names \in GoalNameChoices, npts \in 0..MaxPoints :
        LET g == ngoals + 1 IN
        /\ ngoals' = g
        /\ hstatus' = [hstatus EXCEPT ![g] = "executing"]
        /\ stop_the_robot' = FALSE
        /\ IF robot_mode = "manipulation"
           THEN /\ \E lens \in PointLengths(npts) :
                     stacks' = Pushed(t, NewFrame("traj", "x_acq", g, names, npts, lens))
                /\ stop_lock' = TRUE
                /\ UNCHANGED goal_handle
           ELSE /\ stacks' = Pushed(t, Wrote(NewFrame("goal", "acq", g, names, npts, "none"), "none"))
                /\ goal_handle' = g
                /\ UNCHANGED stop_lock
    /\ UNCHANGED <<robot_mode, origin_set, num_r, w_held, result, playing,
                   velocity, leaked>>
    /\ UNCHANGED mvars

\* all(updates), and the claimed names against the commanded names.
JointsValid(names) ==
    /\ \A c \in GroupSet : GroupUpdate(c, names)
    /\ SumOver(GroupSet, names) > 0
    /\ SumOver(GroupSet, names) = Len(names)

\* "Achieved all target points.": success_callback, release_read, return.
Succeed(t) ==
    /\ result' = "SUCCESSFUL"
    /\ hstatus' = HstatusAfterSuccess
    /\ num_r' = num_r - 1
    /\ stacks' = WithTop(t, Leave(Wrote(Top(t), "SUCCESSFUL"), "success"))

\* acquire_read; update on all groups and the claimed-name count; a goal
\* without points falls through the point loop.  (A reject releases the
\* shared access it has just taken.)
ExecuteCbValidate(t) ==
    /\ Running(t, "goal", "acq")
    /\ CanAcquireRead
    /\ LET f == Top(t) IN
       IF ~JointsValid(f.names)
       THEN /\ result' = ResultAfterAbort("INVALID_JOINTS")
            /\ hstatus' = HstatusAfterAbort
            /\ stacks' = WithTop(t, Leave(WroteIfActive(f, "INVALID_JOINTS"), "invalid_joints"))
            /\ UNCHANGED num_r
       ELSE IF f.npts = 0
       THEN /\ result' = "SUCCESSFUL"
            /\ hstatus' = HstatusAfterSuccess
            /\ stacks' = WithTop(t, Leave(Wrote(f, "SUCCESSFUL"), "success"))
            /\ UNCHANGED num_r
       ELSE /\ num_r' = num_r + 1
            /\ stacks' = WithTop(t, [f EXCEPT !.pc = "set_goal", !.pt = 1])
            /\ UNCHANGED <<result, hstatus>>
    /\ UNCHANGED <<robot_mode, origin_set, w_held, stop_lock, stop_the_robot,
                   goal_handle, playing, velocity, leaked, ngoals, ncalls>>
    /\ UNCHANGED mvars

\* A point loop that stages the setpoints of a point and does not push
\* them.
ExecuteCbSetGoal_NoPush(t) ==
    /\ Running(t, "goal", "set_goal")
    /\ LET f == Top(t) IN
       \E valid \in BOOLEAN :
          IF ~valid
          THEN /\ result' = ResultAfterAbort("INVALID_GOAL")
               /\ hstatus' = HstatusAfterAbort
               /\ num_r' = num_r - 1
               /\ stacks' = WithTop(t, Leave(WroteIfActive(f, "INVALID_GOAL"), "invalid_goal"))
          ELSE \E R \in SUBSET ActiveGroups(f.names) :
               /\ stacks' = WithTop(t, [f EXCEPT !.pc = "poll",
                                          !.all_reached = (R = ActiveGroups(f.names)),
                                          !.elapsed = 0])
               /\ UNCHANGED <<result, hstatus, num_r>>
    /\ UNCHANGED <<robot_mode, origin_set, w_held, stop_lock, stop_the_robot,
                   goal_handle, playing, velocity, leaked, ngoals, ncalls>>
    /\ UNCHANGED mvars

\* One point: set_goal on all groups; get_status, init_execution on all
\* groups, push_command; goals_reached; goal_start_time.
ExecuteCbSetGoal(t) ==
    /\ Running(t, "goal", "set_goal")
    /\ LET f == Top(t) IN
       \E valid \in BOOLEAN :
          IF ~valid
          THEN /\ result' = ResultAfterAbort("INVALID_GOAL")
               /\ hstatus' = HstatusAfterAbort
               /\ num_r' = num_r - 1
               /\ stacks' = WithTop(t, Leave(WroteIfActive(f, "INVALID_GOAL"), "invalid_goal"))
          ELSE \E R \in SUBSET ActiveGroups(f.names) :
               /\ stacks' = WithTop(t, [f EXCEPT !.pc = "poll",
                                          !.pushes = @ + 1,
                                          !.all_reached = (R = ActiveGroups(f.names)),
                                          !.elapsed = 0])
               /\ UNCHANGED <<result, hstatus, num_r>>
    /\ UNCHANGED <<robot_mode, origin_set, w_held, stop_lock, stop_the_robot,
                   goal_handle, playing, velocity, leaked, ngoals, ncalls>>
    /\ UNCHANGED mvars

\* A point loop that goes on to the next point without waiting for the
\* groups to reach the current one.
ExecuteCbPoll_NoWait(t) ==
    /\ Depth(t) > 0
    /\ Top(t).op = "goal"
    /\ Top(t).pc \in {"poll", "spin"}
    /\ IF Top(t).pt < Top(t).npts
       THEN /\ stacks' = WithTop(t, [Top(t) EXCEPT !.pc = "set_goal", !.pt = @ + 1])
            /\ UNCHANGED <<result, hstatus, num_r>>
       ELSE Succeed(t)
    /\ UNCHANGED <<robot_mode, origin_set, w_held, stop_lock, stop_the_robot,
                   goal_handle, playing, velocity, leaked, ngoals, ncalls>>
    /\ UNCHANGED mvars

\* A poll loop without the timeout test.
ExecuteCbPoll_NoTimeout(t) ==
    /\ Depth(t) > 0
    /\ Top(t).op = "goal"
    /\ Top(t).pc \in {"poll", "spin"}
    /\ LET f == Top(t) IN
       IF f.all_reached
       THEN IF f.pt < f.npts
            THEN /\ stacks' = WithTop(t, [f EXCEPT !.pc = "set_goal", !.pt = @ + 1])
                 /\ UNCHANGED <<result, hstatus, num_r, stop_the_robot, leaked>>
            ELSE /\ Succeed(t)
                 /\ UNCHANGED <<stop_the_robot, leaked>>
       ELSE IF FALSE
       THEN /\ result' = ResultAfterAbort("GOAL_TOLERANCE_VIOLATED")
            /\ hstatus' = HstatusAfterAbort
            /\ num_r' = num_r - 1
            /\ stacks' = WithTop(t, Leave(WroteIfActive(f, "GOAL_TOLERANCE_VIOLATED"), "timeout"))
            /\ UNCHANGED <<stop_the_robot, leaked>>
       ELSE /\ ~stop_lock
            /\ IF stop_the_robot \/ IsCancelRequested(goal_handle)
               THEN \E raises \in BOOLEAN :
                       IF raises
                       THEN /\ leaked' = leaked + 1
                            /\ stacks' = WithTop(t, Leave(f, "exception"))
                            /\ UNCHANGED <<result, hstatus, num_r, stop_the_robot>>
                       ELSE /\ stop_the_robot' = FALSE
                            /\ num_r' = num_r - 1
                            /\ stacks' = WithTop(t, Leave(f, "preempted"))
                            /\ UNCHANGED <<result, hstatus, leaked>>
               ELSE /\ \E R \in SUBSET ActiveGroups(f.names), fatal \in BOOLEAN :
                       LET fw == IF R # {} THEN Wrote(f, "SUCCESSFUL") ELSE f IN
                       /\ IF R # {}
                          THEN /\ result' = "SUCCESSFUL"
                               /\ hstatus' = HstatusAfterSuccess
                          ELSE UNCHANGED <<result, hstatus>>
                       /\ IF fatal
                          THEN /\ num_r' = num_r - 1
                               /\ stacks' = WithTop(t, Leave(fw, "fatal"))
                          ELSE /\ stacks' = WithTop(t,
                                      [fw EXCEPT !.pc = "spin",
                                                 !.all_reached = (R = ActiveGroups(f.names))])
                               /\ UNCHANGED num_r
                    /\ UNCHANGED <<stop_the_robot, leaked>>
    /\ UNCHANGED <<robot_mode, origin_set, w_held, stop_lock, goal_handle,
                   playing, velocity, ngoals, ncalls>>
    /\ UNCHANGED mvars

\* One poll iteration: the while test, the timeout test, the preemption test
\* under the stop lock; get_status, update_execution on all groups (a group
\* that reached its target calls success_callback; a group may return the
\* fatal signal), feedback, goals_reached; the frame is then in spin_once.
\* self.server is rclpy's ActionServer, which is not part of the sources:
\* self.server.set_preempted() either returns, writing neither the result
\* nor the handle, or raises AttributeError, and the callback is then left
\* before the flag is cleared and before release_read.
ExecuteCbPoll(t) ==
    /\ Depth(t) > 0
    /\ Top(t).op = "goal"
    /\ Top(t).pc \in {"poll", "spin"}
    /\ LET f == Top(t) IN
       IF f.all_reached
       THEN IF f.pt < f.npts
            THEN /\ stacks' = WithTop(t, [f EXCEPT !.pc = "set_goal", !.pt = @ + 1])
                 /\ UNCHANGED <<result, hstatus, num_r, stop_the_robot, leaked>>
            ELSE /\ Succeed(t)
                 /\ UNCHANGED <<stop_the_robot, leaked>>
       ELSE IF TimedOut(f)
       THEN /\ result' = ResultAfterAbort("GOAL_TOLERANCE_VIOLATED")
            /\ hstatus' = HstatusAfterAbort
            /\ num_r' = num_r - 1
            /\ stacks' = WithTop(t, Leave(WroteIfActive(f, "GOAL_TOLERANCE_VIOLATED"), "timeout"))
            /\ UNCHANGED <<stop_the_robot, leaked>>
       ELSE /\ ~stop_lock
            /\ IF stop_the_robot \/ IsCancelRequested(goal_handle)
               THEN \E raises \in BOOLEAN :
                       IF raises
                       THEN /\ leaked' = leaked + 1
                            /\ stacks' = WithTop(t, Leave(f, "exception"))
                            /\ UNCHANGED <<result, hstatus, num_r, stop_the_robot>>
                       ELSE /\ stop_the_robot' = FALSE
                            /\ num_r' = num_r - 1
                            /\ stacks' = WithTop(t, Leave(f, "preempted"))
                            /\ UNCHANGED <<result, hstatus, leaked>>
               ELSE /\ \E R \in SUBSET ActiveGroups(f.names), fatal \in BOOLEAN :
                       LET fw == IF R # {} THEN Wrote(f, "SUCCESSFUL") ELSE f IN
                       /\ IF R # {}
                          THEN /\ result' = "SUCCESSFUL"
                               /\ hstatus' = HstatusAfterSuccess
                          ELSE UNCHANGED <<result, hstatus>>
                       /\ IF fatal
                          THEN /\ num_r' = num_r - 1
                               /\ stacks' = WithTop(t, Leave(fw, "fatal"))
                          ELSE /\ stacks' = WithTop(t,
                                      [fw EXCEPT !.pc = "spin",
                                                 !.all_reached = (R = ActiveGroups(f.names))])
                               /\ UNCHANGED num_r
                    /\ UNCHANGED <<stop_the_robot, leaked>>
    /\ UNCHANGED <<robot_mode, origin_set, w_held, stop_lock, goal_handle,
                   playing, velocity, ngoals, ncalls>>
    /\ UNCHANGED mvars

\* The code a frame that reached its return statement hands back:
\* execute_cb returns the shared self.result, execute_trajectory a Result
\* of its own.
ReturnedCode(f) == IF f.op = "goal" THEN result ELSE f.code

\* return: the callback ends and the action server closes the handle.
ExecuteCbReturn(t) ==
    /\ Depth(t) > 0
    /\ Top(t).pc = "ret"
    /\ hstatus' = [hstatus EXCEPT ![Top(t).g] = "closed"]
    /\ stacks' = Popped(t)
    /\ UNCHANGED <<robot_mode, origin_set, num_r, w_held, stop_lock,
                   stop_the_robot, goal_handle, result, playing, velocity,
                   leaked, ngoals, ncalls>>
    /\ UNCHANGED mvars

\* ------------------------------------------- execute_trajectory (interpolator)
TrajectoryComponents ==
    {"joint_head_pan", "joint_head_tilt", "joint_wrist_yaw", "stretch_gripper",
     "wrist_extension", "joint_lift", "position"}

\* The joint names that contain 'joint_arm_l': the four segments and, of the
\* other names a trajectory may carry, joint_arm_l4.
ArmLikeNames == ArmSegments \cup {"joint_arm_l4"}

\* 'joint_arm_l' in name
IsArmName(name) == name \in ArmLikeNames

ArmIndexes(names) == {i \in 1..Len(names) : IsArmName(names[i])}

\* A merge that only counts the arm joints and does not look for
\* wrist_extension.
MergeRaises_CountOnly(names) ==
    /\ ArmIndexes(names) # {}
    /\ Cardinality(ArmIndexes(names)) # 4

\* merge_arm_joints raises InvalidJointException.
MergeRaises(names) ==
    /\ ArmIndexes(names) # {}
    /\ \/ "wrist_extension" \in Range(names)
       \/ Cardinality(ArmIndexes(names)) # 4

RECURSIVE NonArm(_)
NonArm(names) ==
    IF names = <<>> THEN <<>>
    ELSE IF IsArmName(Head(names)) THEN NonArm(Tail(names))
    ELSE <<Head(names)>> \o NonArm(Tail(names))

\* A merge that names wrist_extension and keeps the arm joints.
MergedNames_KeepArm(names) ==
    IF ArmIndexes(names) = {} THEN names
    ELSE Append(names, "wrist_extension")

\* The joint names of the trajectory merge_arm_joints returns.
MergedNames(names) ==
    IF ArmIndexes(names) = {} THEN names
    ELSE Append(NonArm(names), "wrist_extension")

\* The values of the joints that are not arm joints, in the order of the
\* joint names, from index i on: those the point supplies.
RECURSIVE Kept(_, _, _)
Kept(values, names, i) ==
    IF i > Len(names) THEN <<>>
    ELSE IF ~IsArmName(names[i]) /\ i <= Len(values)
    THEN <<values[i]>> \o Kept(values, names, i + 1)
    ELSE Kept(values, names, i + 1)

RECURSIVE Sum(_, _)
Sum(values, S) ==
    IF S = {} THEN 0
    ELSE LET i == CHOOSE x \in S : TRUE
         IN  values[i] + Sum(values, S \ {i})

\* The arm indexes for which the point supplies a velocity (acceleration).
ArmSupplied(values, names) == {i \in ArmIndexes(names) : i <= Len(values)}

\* sum(vels) / len(vels)
Average(values, S) == Sum(values, S) \div Cardinality(S)

\* A merged point that has total_extension in front of the positions of
\* the other joints.
MergedPoint_ArmFirst(point, names) ==
    [time_from_start |-> point.time_from_start,
     positions |->
        <<Sum(point.positions, ArmIndexes(names))>>
            \o Kept(point.positions, names, 1),
     velocities |-> Kept(point.velocities, names, 1),
     accelerations |-> Kept(point.accelerations, names, 1)]

\* One point of the merged trajectory: the values of the other joints are
\* copied, as is time_from_start, then total_extension is appended to the positions and the
\* averages of the supplied arm velocities and accelerations to theirs.
MergedPoint(point, names) ==
    [time_from_start |-> point.time_from_start,
     positions |->
        Append(Kept(point.positions, names, 1),
               Sum(point.positions, ArmIndexes(names))),
     velocities |->
        IF ArmSupplied(point.velocities, names) # {}
        THEN Append(Kept(point.velocities, names, 1),
                    Average(point.velocities,
                            ArmSupplied(point.velocities, names)))
        ELSE Kept(point.velocities, names, 1),
     accelerations |->
        IF ArmSupplied(point.accelerations, names) # {}
        THEN Append(Kept(point.accelerations, names, 1),
                    Average(point.accelerations,
                            ArmSupplied(point.accelerations, names)))
        ELSE Kept(point.accelerations, names, 1)]

\* merge_arm_joints(trajectory): the trajectory itself when no name is an arm
\* joint, InvalidJointException, or the new trajectory.
merge_arm_joints(tr) ==
    IF ArmIndexes(tr.joint_names) = {}
    THEN [kind |-> "returned", trajectory |-> tr]
    ELSE IF MergeRaises(tr.joint_names)
    THEN [kind |-> "InvalidJointException", trajectory |-> EmptyTrajectory]
    ELSE [kind |-> "returned",
          trajectory |->
             [joint_names |-> MergedNames(tr.joint_names),
              points |-> [k \in 1..Len(tr.points) |->
                            MergedPoint(tr.points[k], tr.joint_names)]]]

\* except Exception: stop_trajectory, abort, error code -100; finally
\* release_read.
TrajFault(t, how) ==
    /\ playing' = FALSE
    /\ hstatus' = [hstatus EXCEPT ![Top(t).g] = "aborted"]
    /\ stacks' = WithTop(t, Leave([Top(t) EXCEPT !.code = "UNKNOWN_ERROR"], how))

\* A handler that treats a FollowJointTrajectoryException as any other
\* exception.
TrajReject_AsFault(t, code, how) ==
    /\ hstatus' = [hstatus EXCEPT ![Top(t).g] = "aborted"]
    /\ stacks' = WithTop(t, Leave([Top(t) EXCEPT !.code = "UNKNOWN_ERROR"], how))
    /\ playing' = FALSE

\* except FollowJointTrajectoryException: abort, error code e.CODE; finally
\* release_read.
TrajReject(t, code, how) ==
    /\ hstatus' = [hstatus EXCEPT ![Top(t).g] = "aborted"]
    /\ stacks' = WithTop(t, Leave([Top(t) EXCEPT !.code = code], how))
    /\ UNCHANGED playing

\* acquire_read inside "with robot_stop_lock"; then the goal is checked,
\* merged, loaded into the trajectory components and played: the position
\* counts (the message of the exception reads goal.joint_names, which a goal
\* does not have), merge_arm_joints, the component names, points[0] of each
\* joint, add_waypoints, start_trajectory.  (A fault or a reject releases the
\* shared access it has just taken.)
TrajValidate(t) ==
    /\ Running(t, "traj", "x_acq")
    /\ CanAcquireRead
    /\ stop_lock' = FALSE
    /\ LET f == Top(t) IN
       \E loadOK \in BOOLEAN :
          IF f.arg = "lengths_differ"
          THEN TrajFault(t, "exception") /\ UNCHANGED num_r
          ELSE IF MergeRaises(f.names)
          THEN TrajReject(t, "INVALID_JOINTS", "invalid_joints") /\ UNCHANGED num_r
          ELSE IF ~(Range(MergedNames(f.names)) \subseteq TrajectoryComponents)
          THEN TrajReject(t, "INVALID_JOINTS", "invalid_joints") /\ UNCHANGED num_r
          ELSE IF MergedNames(f.names) # <<>> /\ (f.npts = 0 \/ ~loadOK)
          THEN TrajFault(t, "exception") /\ UNCHANGED num_r
          ELSE /\ playing' = TRUE
               /\ num_r' = num_r + 1
               /\ stacks' = WithTop(t, [f EXCEPT !.pc = "x_poll",
                                                 !.names = MergedNames(f.names)])
               /\ UNCHANGED hstatus
    /\ UNCHANGED <<robot_mode, origin_set, w_held, stop_the_robot,
                   goal_handle, result, velocity, leaked, ngoals, ncalls>>
    /\ UNCHANGED mvars

\* The feedback loop: while is_trajectory_executing() a feedback message is
\* built, reading t_comp.get_desired_position_at(dt) for every joint name, a
\* method no trajectory component has: with a joint in the goal the first
\* pass of the loop faults, without one it publishes and sleeps.  When the
\* playback is over: stop_trajectory, succeed, SUCCESSFUL.
TrajPoll(t) ==
    /\ Running(t, "traj", "x_poll")
    /\ ~(playing /\ Top(t).names = <<>>)
    /\ IF playing
       THEN TrajFault(t, "feedback_fault") /\ num_r' = num_r - 1
       ELSE /\ hstatus' = [hstatus EXCEPT ![Top(t).g] = "succeeded"]
            /\ num_r' = num_r - 1
            /\ stacks' = WithTop(t, Leave([Top(t) EXCEPT !.code = "SUCCESSFUL"], "success"))
            /\ UNCHANGED playing
    /\ UNCHANGED <<robot_mode, origin_set, w_held, stop_lock, stop_the_robot,
                   goal_handle, result, velocity, leaked, ngoals, ncalls>>
    /\ UNCHANGED mvars

\* The robot finishes the playback.
PlaybackEnds ==
    /\ playing
    /\ playing' = FALSE
    /\ UNCHANGED <<stacks, robot_mode, origin_set, num_r, w_held, stop_lock,
                   stop_the_robot, goal_handle, result, hstatus, velocity,
                   leaked, ngoals, ncalls>>
    /\ UNCHANGED mvars

\* ------------------------------------------------------------ change_mode
Modes == {"navigation", "manipulation", "position", "calibration"}

\* A mode service callback (navigation, manipulation, position, calibrate)
\* is taken by a thread.
ChangeModeStart(t) ==
    /\ CanDispatch(t)
    /\ ncalls' = ncalls + 1
    /\ \E m \in Modes :
         stacks' = Pushed(t, NewFrame("mode", "m_acq", 0, <<>>, 0, m))
    /\ UNCHANGED <<robot_mode, origin_set, num_r, w_held, stop_lock,
                   stop_the_robot, goal_handle, result, hstatus, playing,
                   velocity, leaked, ngoals>>
    /\ UNCHANGED mvars

\* change_mode that takes exclusive access without waiting for the shared
\* holders to release.
ChangeModeAcquire_NoWait(t) ==
    /\ Running(t, "mode", "m_acq")
    /\ ~w_held
    /\ w_held' = TRUE
    /\ robot_mode' = Top(t).arg
    /\ stacks' = WithTop(t, [Top(t) EXCEPT !.pc = "m_run"])
    /\ UNCHANGED <<origin_set, num_r, stop_lock, stop_the_robot, goal_handle,
                   result, hstatus, playing, velocity, leaked, ngoals, ncalls>>
    /\ UNCHANGED mvars

\* robot_mode_rwlock.acquire_write(); self.robot_mode = new_mode
ChangeModeAcquire(t) ==
    /\ Running(t, "mode", "m_acq")
    /\ CanAcquireWrite
    /\ w_held' = TRUE
    /\ robot_mode' = Top(t).arg
    /\ stacks' = WithTop(t, [Top(t) EXCEPT !.pc = "m_run"])
    /\ UNCHANGED <<origin_set, num_r, stop_lock, stop_the_robot, goal_handle,
                   result, hstatus, playing, velocity, leaked, ngoals, ncalls>>
    /\ UNCHANGED mvars

\* turn_on_manipulation_mode whose code_to_run does not capture the origin.
ChangeModeRun_NoOrigin(t) ==
    /\ Running(t, "mode", "m_run")
    /\ velocity' = IF Top(t).arg = "navigation" THEN 0 ELSE velocity
    /\ origin_set' = origin_set
    /\ w_held' = FALSE
    /\ stacks' = Popped(t)
    /\ UNCHANGED <<robot_mode, num_r, stop_lock, stop_the_robot, goal_handle,
                   result, hstatus, playing, leaked, ngoals, ncalls>>
    /\ UNCHANGED mvars

\* change_mode that returns without release_write.
ChangeModeRun_NoRelease(t) ==
    /\ Running(t, "mode", "m_run")
    /\ velocity' = IF Top(t).arg = "navigation" THEN 0 ELSE velocity
    /\ origin_set' = (origin_set \/ Top(t).arg = "manipulation")
    /\ stacks' = Popped(t)
    /\ UNCHANGED <<robot_mode, num_r, w_held, stop_lock, stop_the_robot,
                   goal_handle, result, hstatus, playing, leaked, ngoals,
                   ncalls>>
    /\ UNCHANGED mvars

\* code_to_run(); robot_mode_rwlock.release_write()
ChangeModeRun(t) ==
    /\ Running(t, "mode", "m_run")
    /\ velocity' = IF Top(t).arg = "navigation" THEN 0 ELSE velocity
    /\ origin_set' = (origin_set \/ Top(t).arg = "manipulation")
    /\ w_held' = FALSE
    /\ stacks' = Popped(t)
    /\ UNCHANGED <<robot_mode, num_r, stop_lock, stop_the_robot, goal_handle,
                   result, hstatus, playing, leaked, ngoals, ncalls>>
    /\ UNCHANGED mvars

\* ----------------------------------------------- periodic task, cmd_vel
\* command_mobile_base_velocity_and_publish_state: acquire_read.
TimerStart(t) ==
    /\ CanDispatch(t)
    /\ ncalls' = ncalls + 1
    /\ CanAcquireRead
    /\ num_r' = num_r + 1
    /\ stacks' = Pushed(t, NewFrame("timer", "t_body", 0, <<>>, 0, "none"))
    /\ UNCHANGED <<robot_mode, origin_set, w_held, stop_lock, stop_the_robot,
                   goal_handle, result, hstatus, playing, velocity, leaked,
                   ngoals>>
    /\ UNCHANGED mvars

\* The body of the periodic task (it reads the manipulation origin in
\* manipulation mode) and release_read.
TimerBody(t) ==
    /\ Running(t, "timer", "t_body")
    /\ IF robot_mode = "manipulation" /\ ~origin_set
       THEN /\ leaked' = leaked + 1
            /\ UNCHANGED num_r
       ELSE /\ num_r' = num_r - 1
            /\ UNCHANGED leaked
    /\ stacks' = Popped(t)
    /\ UNCHANGED <<robot_mode, origin_set, w_held, stop_lock, stop_the_robot,
                   goal_handle, result, hstatus, playing, velocity, ngoals, ncalls>>
    /\ UNCHANGED mvars

Velocities == {0, 1}

\* set_mobile_base_velocity_callback: acquire_read.
VelocityStart(t) ==
    /\ CanDispatch(t)
    /\ ncalls' = ncalls + 1
    /\ CanAcquireRead
    /\ num_r' = num_r + 1
    /\ stacks' = Pushed(t, NewFrame("vel", "v_body", 0, <<>>, 0, "none"))
    /\ UNCHANGED <<robot_mode, origin_set, w_held, stop_lock, stop_the_robot,
                   goal_handle, result, hstatus, playing, velocity, leaked,
                   ngoals>>
    /\ UNCHANGED mvars

\* set_mobile_base_velocity_callback after acquire_read: outside navigation
\* mode it logs and returns; in navigation mode it stores the twist and
\* releases.
VelocityBody(t) ==
    /\ Running(t, "vel", "v_body")
    /\ IF robot_mode # "navigation"
       THEN /\ leaked' = leaked + 1
            /\ UNCHANGED <<num_r, velocity>>
       ELSE /\ \E v \in Velocities : velocity' = v
            /\ num_r' = num_r - 1
            /\ UNCHANGED leaked
    /\ stacks' = Popped(t)
    /\ UNCHANGED <<robot_mode, origin_set, w_held, stop_lock, stop_the_robot,
                   goal_handle, result, hstatus, playing, ngoals, ncalls>>
    /\ UNCHANGED mvars

\* ------------------------------------------------------- stop, cancel, clock
\* A goal execution is inside its poll loop.
InLoop(f) ==
    \/ f.op = "goal" /\ f.pc = "spin"
    \/ f.op = "goal" /\ f.pc = "poll" /\ ~f.all_reached
    \/ f.op = "traj" /\ f.pc = "x_poll" /\ playing

\* stop_the_robot_callback / runstop_service_callback(data = True): under
\* the stop lock the flag is raised and the actuators are commanded to stop.
\* Each frame remembers that the flag was raised while it was in its loop.
StopTheRobot(t) ==
    /\ CanDispatch(t)
    /\ ncalls' = ncalls + 1
    /\ ~stop_lock
    /\ stop_the_robot' = TRUE
    /\ stacks' = [u \in Threads |->
                    [i \in 1..Len(stacks[u]) |->
                       IF InLoop(stacks[u][i])
                       THEN [stacks[u][i] EXCEPT !.stopped = TRUE]
                       ELSE stacks[u][i]]]
    /\ UNCHANGED <<robot_mode, origin_set, num_r, w_held, stop_lock,
                   goal_handle, result, hstatus, playing, velocity, leaked,
                   ngoals>>
    /\ UNCHANGED mvars

\* The client asks to cancel a goal that is executing.
Cancel(g) ==
    /\ hstatus[g] = "executing"
    /\ hstatus' = [hstatus EXCEPT ![g] = "canceling"]
    /\ UNCHANGED <<stacks, robot_mode, origin_set, num_r, w_held, stop_lock,
                   stop_the_robot, goal_handle, result, playing, velocity,
                   leaked, ngoals, ncalls>>
    /\ UNCHANGED mvars

Timing(f) == f.op = "goal" /\ f.pc \in {"poll", "spin"} /\ ~TimedOut(f)

\* The clock advances: now - goal_start_time grows for every point in
\* execution (kept up to the first value past the timeout).
Tick ==
    /\ \E u \in Threads : \E i \in 1..Len(stacks[u]) : Timing(stacks[u][i])
    /\ stacks' = [u \in Threads |->
                    [i \in 1..Len(stacks[u]) |->
                       IF Timing(stacks[u][i])
                       THEN [stacks[u][i] EXCEPT !.elapsed = @ + TickSeconds]
                       ELSE stacks[u][i]]]
    /\ UNCHANGED <<robot_mode, origin_set, num_r, w_held, stop_lock,
                   stop_the_robot, goal_handle, result, hstatus, playing,
                   velocity, leaked, ngoals, ncalls>>
    /\ UNCHANGED mvars

\* ------------------------------------------------------------ specification
Next ==
    \/ \E t \in Threads : ExecuteCbStart(t)
    \/ \E t \in Threads : ExecuteCbValidate(t)
    \/ \E t \in Threads : ExecuteCbSetGoal(t)
    \/ \E t \in Threads : ExecuteCbPoll(t)
    \/ \E t \in Threads : ExecuteCbReturn(t)
    \/ \E t \in Threads : TrajValidate(t)
    \/ \E t \in Threads : TrajPoll(t)
    \/ PlaybackEnds
    \/ \E t \in Threads : ChangeModeStart(t)
    \/ \E t \in Threads : ChangeModeAcquire(t)
    \/ \E t \in Threads : ChangeModeRun(t)
    \/ \E t \in Threads : TimerStart(t)
    \/ \E t \in Threads : TimerBody(t)
    \/ \E t \in Threads : VelocityStart(t)
    \/ \E t \in Threads : VelocityBody(t)
    \/ \E t \in Threads : StopTheRobot(t)
    \/ \E g \in GoalIds : Cancel(g)
    \/ Tick

Spec == Init /\ [][Next]_vars

\* ------------------------------------------- merge_arm_joints on its own
\* The joint names of the trajectories given to merge_arm_joints: the four
\* segments, the virtual joint, another joint, and a name that contains
\* 'joint_arm_l' without being a segment.
JointNames == ArmLikeNames \cup {"wrist_extension", "joint_lift"}

\* The lists of at most n joint names.
NameLists(n) == UNION {[1..m -> JointNames] : m \in 0..n}

\* The lists of n names, joint_head_pan among the names to choose from, that
\* have each of the four segments once.
FourSegmentLists(n) ==
    {ns \in [1..n -> JointNames \cup {"joint_head_pan"}] :
        \A seg \in ArmSegments :
            Cardinality({i \in 1..n : ns[i] = seg}) = 1}

\* How many velocities (accelerations) a point of n joints carries.
SuppliedCounts(n) == {0, 1, n} \cap (0..n)

RECURSIVE Pow2(_)
Pow2(i) == IF i = 0 THEN 1 ELSE 2 * Pow2(i - 1)

\* Point k of a trajectory of n joints: the position of the joint at index
\* i is k * 2^(i-1), so that a sum tells which indexes were added; every
\* point has as many positions as there are joint names (execute_trajectory
\* checks it before it merges); velocities and accelerations are multiples
\* of 12, so that their averages are whole numbers; point k is due 3 * k
\* seconds from the start.
Point(n, k, nv, na) ==
    [time_from_start |-> 3 * k,
     positions     |-> [i \in 1..n  |-> k * Pow2(i - 1)],
     velocities    |-> [i \in 1..nv |-> 12 * k * Pow2(i - 1)],
     accelerations |-> [i \in 1..na |-> 24 * k * Pow2(i - 1)]]

\* The trajectory of np points for the joint names ns whose points carry
\* nv velocities and na accelerations.
Trajectory(ns, np, nv, na) ==
    [joint_names |-> ns,
     points |-> [k \in 1..np |-> Point(Len(ns), k, nv, na)]]

\* The node is idle in manipulation mode; execute_trajectory is about to
\* call merge_arm_joints with some trajectory.
MergeInit ==
    /\ stacks = [t \in Threads |-> <<>>]
    /\ robot_mode = "manipulation"
    /\ origin_set = TRUE
    /\ num_r = 0
    /\ w_held = FALSE
    /\ stop_lock = FALSE
    /\ stop_the_robot = FALSE
    /\ goal_handle = 0
    /\ result = "SUCCESSFUL"
    /\ hstatus = [g \in GoalIds |-> "idle"]
    /\ playing = FALSE
    /\ velocity = 0
    /\ leaked = 0
    /\ ngoals = 0
    /\ ncalls = 0
    /\ \E ns \in NameLists(MaxJoints) \cup FourSegmentLists(MaxJoints + 1),
          np \in 0..MaxPoints :
         \E nv, na \in SuppliedCounts(Len(ns)) :
            trajectory = Trajectory(ns, np, nv, na)
    /\ new_trajectory = NotCalled

\* goal.trajectory = merge_arm_joints(goal.trajectory)
CallMerge ==
    /\ new_trajectory = NotCalled
    /\ new_trajectory' = merge_arm_joints(trajectory)
    /\ UNCHANGED <<stacks, robot_mode, origin_set, num_r, w_held, stop_lock,
                   stop_the_robot, goal_handle, result, hstatus, playing,
                   velocity, leaked, ngoals, ncalls, trajectory>>

MergeNext == CallMerge

MergeSpec == MergeInit /\ [][MergeNext]_vars

\* ------------------------------------------------------- frames of a state
FramePos == {p \in Threads \X (1..MaxDepth) : p[2] <= Len(stacks[p[1]])}

FrameAt(p) == stacks[p[1]][p[2]]

\* The callback is between acquire_read and release_read.
HoldsShared(f) ==
    \/ f.op = "goal" /\ f.pc \in {"set_goal", "poll", "spin"}
    \/ f.op = "traj" /\ f.pc = "x_poll"
    \/ f.op = "timer" /\ f.pc = "t_body"
    \/ f.op = "vel" /\ f.pc = "v_body"

\* change_mode is between acquire_write and release_write.
HoldsExclusive(f) == f.op = "mode" /\ f.pc = "m_run"

\* A goal execution between its start and the return of its result.
IsGoal(f) == f.op \in {"goal", "traj"}

\* ------------------------------------------------------------------ C1
\* C1: gate mutual exclusion.  While a change_mode holds exclusive access,
\* no goal execution, velocity callback or periodic task holds shared
\* access and no second change_mode holds exclusive access; shared holders
\* are not limited in number.
C1GateMutualExclusion ==
    /\ w_held => num_r = 0
    /\ \A p \in FramePos, q \in FramePos :
          HoldsExclusive(FrameAt(p)) =>
              /\ w_held
              /\ ~HoldsShared(FrameAt(q))
              /\ (HoldsExclusive(FrameAt(q)) => p = q)

\* C1 witness: two callbacks hold shared access at once while a change_mode
\* waits for exclusive access.
C1SharedHoldersCoexist ==
    \E p \in FramePos, q \in FramePos, w \in FramePos :
        /\ p # q
        /\ HoldsShared(FrameAt(p))
        /\ HoldsShared(FrameAt(q))
        /\ FrameAt(w).op = "mode"
        /\ FrameAt(w).pc = "m_acq"

\* ------------------------------------------------------------------ C2
\* C2: transition liveness, as a statement about finite runs.  A mode
\* transition requested while a goal execution is in its poll loop is never
\* left waiting in a state where nothing can happen any more: whenever a
\* change_mode waits for exclusive access, a goal execution is in its poll
\* loop and every finished callback has released its shared access, some
\* step of the system is still possible.
C2TransitionNeverStuck ==
    ( /\ \E t \in Threads : Running(t, "mode", "m_acq")
      /\ \E p \in FramePos : FrameAt(p).op = "goal" /\ FrameAt(p).pc \in {"poll", "spin"}
      /\ leaked = 0 )
    => ENABLED Next

\* ------------------------------------------------------------------ C3
\* C3: single active goal.  At most one goal execution is between its start
\* and the return of its result.
C3SingleActiveGoal ==
    Cardinality({p \in FramePos : IsGoal(FrameAt(p))}) <= 1

\* ------------------------------------------------------------------ C4
\* C4: stop observed within one tick, position path.  A goal that was inside
\* its poll loop when the stop flag was raised is still at that point of the
\* loop or has ended as preempted: it has not gone on to another point, to
\* success or to a timeout.
C4StopObservedNextCheck ==
    \A p \in FramePos :
        (FrameAt(p).op = "goal" /\ FrameAt(p).stopped) =>
            \/ FrameAt(p).pc \in {"poll", "spin"}
            \/ FrameAt(p).pc = "ret" /\ FrameAt(p).exit = "preempted"

\* ------------------------------------------------------------------ C5
\* C5: stop interrupts a goal on the interpolator path.  A goal with points
\* that was in the feedback loop of execute_trajectory, its trajectory
\* playing, when the stop flag was raised does not end as succeeded.
C5StopInterruptsTrajectory ==
    \A p \in FramePos :
        (FrameAt(p).op = "traj" /\ FrameAt(p).npts > 0 /\ FrameAt(p).stopped) =>
            ~(FrameAt(p).pc = "ret" /\ FrameAt(p).exit = "success")

\* ------------------------------------------------------------------ C6
\* C6: no partial motion on validation failure.  A goal that ends with
\* InvalidGoal or InvalidJoints has pushed no command for any of its points.
C6NoPartialMotion ==
    \A p \in FramePos :
        (FrameAt(p).pc = "ret" /\ FrameAt(p).exit \in {"invalid_goal", "invalid_joints"}) =>
            FrameAt(p).pushes = 0

\* ------------------------------------------------------------------ C7
\* C7: per-point timeout.  A goal that left its poll loop because the point
\* timed out returns the goal-timeout code.
C7TimeoutCode ==
    \A p \in FramePos :
        (FrameAt(p).pc = "ret" /\ FrameAt(p).exit = "timeout") =>
            ReturnedCode(FrameAt(p)) = "GOAL_TOLERANCE_VIOLATED"

\* ------------------------------------------------------------------ C8
\* C8: preemption outcome.  A goal that left its poll loop because it saw a
\* cancel request or the stop flag returns the Preempted code.
C8PreemptedCode ==
    \A p \in FramePos :
        (FrameAt(p).pc = "ret" /\ FrameAt(p).exit = "preempted") =>
            ReturnedCode(FrameAt(p)) = "PREEMPTED"

\* ------------------------------------------------------------------ C9
\* C9: fatal fault outcome.  A goal that left its poll loop because a group
\* returned the fatal signal returns the UnknownError code.
C9FatalCode ==
    \A p \in FramePos :
        (FrameAt(p).pc = "ret" /\ FrameAt(p).exit = "fatal") =>
            ReturnedCode(FrameAt(p)) = "UNKNOWN_ERROR"

\* ------------------------------------------------------------------ C10
\* C10: success outcome.  A goal on the point-by-point path that has points
\* and whose points were all reached returns the Succeeded code.
C10SuccessCode ==
    \A p \in FramePos :
        ( /\ FrameAt(p).op = "goal"
          /\ FrameAt(p).npts > 0
          /\ FrameAt(p).pc = "ret"
          /\ FrameAt(p).exit = "success" ) =>
            ReturnedCode(FrameAt(p)) = "SUCCESSFUL"

\* ------------------------------------------------------------------ C11
\* C11: the merger runs first on the position path.  The joint names the
\* command groups are given by update and set_goal are merged names: a goal
\* on the point-by-point path that passed update carries no segment name.
C11GroupsSeeMergedNames ==
    \A p \in FramePos :
        (FrameAt(p).op = "goal" /\ FrameAt(p).pc \in {"set_goal", "poll", "spin"}) =>
            ArmIndexes(FrameAt(p).names) = {}

\* ------------------------------------------------------------------ C12
\* A goal names wrist_extension together with a segment joint.
VirtualAndSegment(names) ==
    "wrist_extension" \in Range(names) /\ Range(names) \cap ArmSegments # {}

\* C12: virtual/segment exclusivity end to end.  A goal that names
\* wrist_extension together with a segment joint (its points of the right
\* length) ends as rejected for its joint names, returns the InvalidJoints
\* code and has pushed no command, on both paths.
C12VirtualAndSegmentRejected ==
    \A p \in FramePos :
        ( /\ IsGoal(FrameAt(p))
          /\ VirtualAndSegment(FrameAt(p).names)
          /\ FrameAt(p).pc = "ret"
          /\ FrameAt(p).arg # "lengths_differ" ) =>
            /\ FrameAt(p).exit = "invalid_joints"
            /\ FrameAt(p).pushes = 0
            /\ ReturnedCode(FrameAt(p)) = "INVALID_JOINTS"

\* ------------------------------------------------------------------ C13
\* C13: length mismatch on the interpolator path.  A Manipulation-mode goal
\* with a point whose position count differs from the joint-name count ends
\* as rejected for its goal, with the InvalidGoal code, and not through the
\* fault handler that calls stop_trajectory.
C13LengthMismatchRejected ==
    \A p \in FramePos :
        ( /\ FrameAt(p).op = "traj"
          /\ FrameAt(p).arg = "lengths_differ"
          /\ FrameAt(p).pc = "ret" ) =>
            /\ FrameAt(p).exit = "invalid_goal"
            /\ ReturnedCode(FrameAt(p)) = "INVALID_GOAL"

\* ------------------------------------------------------------------ C14
\* C14: path selection matches the mode.  While a goal execution holds
\* shared access, the interpolator path runs only in manipulation mode and
\* the point-by-point path only in another mode.
C14PathMatchesMode ==
    \A p \in FramePos :
        (IsGoal(FrameAt(p)) /\ HoldsShared(FrameAt(p))) =>
            (FrameAt(p).op = "traj" <=> robot_mode = "manipulation")

\* C15: a valid manipulation-mode goal whose playback started and that was
\* polled in the feedback loop ends with result code SUCCESSFUL: a goal that
\* has left the feedback loop, by completion or in a pass of the loop made
\* while the playback was executing, returns SUCCESSFUL.
C15InterpolatorCompletes ==
    \A p \in FramePos :
        (/\ FrameAt(p).op = "traj"
         /\ FrameAt(p).pc = "ret"
         /\ FrameAt(p).exit \in {"success", "feedback_fault"}) =>
            FrameAt(p).code = "SUCCESSFUL"

\* C16: set_mobile_base_velocity_callback outside navigation mode is a no-op:
\* when it returns, the stored velocity and the mode are what they were and
\* the gate has the number of shared holders it had before the call (the
\* shared access the callback took is given back).
C16VelocityNoOpOutsideNavigation ==
    [][\A t \in Threads :
          (/\ Running(t, "vel", "v_body")
           /\ robot_mode # "navigation"
           /\ stacks' = Popped(t)) =>
              (/\ num_r' = num_r - 1
               /\ velocity' = velocity
               /\ robot_mode' = robot_mode)]_vars

\* C17: the operating mode changes only in change_mode, in the step that
\* takes exclusive access, and to the mode asked for; when change_mode
\* returns the mode is the one asked for and exclusive access is released.
\* No step of a goal execution, of the velocity callback, of the periodic
\* task or of the stop handler changes the mode.
C17ModeOwnership ==
    [][/\ robot_mode' # robot_mode =>
            \E t \in Threads :
               /\ Running(t, "mode", "m_acq")
               /\ stacks' = WithTop(t, [Top(t) EXCEPT !.pc = "m_run"])
               /\ w_held'
               /\ robot_mode' = Top(t).arg
       /\ \A t \in Threads :
            (Running(t, "mode", "m_run") /\ stacks' = Popped(t)) =>
                (robot_mode' = Top(t).arg /\ ~w_held')]_vars

\* A change_mode to calibration is about to return while a goal execution
\* is on the other thread.
C17ModeChangedBesideGoal ==
    \E p, q \in FramePos :
        /\ FrameAt(p).op = "mode"
        /\ FrameAt(p).pc = "m_run"
        /\ FrameAt(p).arg = "calibration"
        /\ robot_mode = "calibration"
        /\ w_held
        /\ IsGoal(FrameAt(q))

\* ------------------------------------------------ merge_arm_joints claims
\* merge_arm_joints has been called and has returned or raised.
MergeCalled == new_trajectory # NotCalled

\* The indexes of the joint names that are one of the four segments.
SegmentIndexes(names) == {i \in 1..Len(names) : names[i] \in ArmSegments}

\* C18: merge_arm_joints returns the trajectory unchanged (the same joint
\* names in the same order, the same points) if and only if none of the
\* four segment names joint_arm_l0..joint_arm_l3 is among its joint names.
C18MergeNoOpIffNoSegment ==
    MergeCalled =>
        ((/\ new_trajectory.kind = "returned"
          /\ new_trajectory.trajectory = trajectory)
         <=> SegmentIndexes(trajectory.joint_names) = {})

\* C19: for a trajectory that has each of the four segment names once and
\* not wrist_extension, wherever the segments sit among the joint names,
\* merge_arm_joints returns a trajectory whose last joint is wrist_extension
\* and in which, at every point, the position of wrist_extension is the sum
\* of the four segment positions of that point.
C19MergedPositionIsSum ==
    (/\ MergeCalled
     /\ Cardinality(SegmentIndexes(trajectory.joint_names)) = 4
     /\ ArmSegments \subseteq Range(trajectory.joint_names)
     /\ "wrist_extension" \notin Range(trajectory.joint_names)) =>
        LET merged == new_trajectory.trajectory
            last == Len(merged.joint_names)
        IN  /\ new_trajectory.kind = "returned"
            /\ last > 0
            /\ merged.joint_names[last] = "wrist_extension"
            /\ Len(merged.points) = Len(trajectory.points)
            /\ \A k \in 1..Len(trajectory.points) :
                  merged.points[k].positions[last] =
                      Sum(trajectory.points[k].positions,
                          SegmentIndexes(trajectory.joint_names))

\* C20: for a trajectory in which one, two or three of the four segment
\* names are present, whatever other joint names accompany them,
\* merge_arm_joints raises InvalidJointException and returns no trajectory.
C20PartialSegmentsRejected ==
    (/\ MergeCalled
     /\ Cardinality(Range(trajectory.joint_names) \cap ArmSegments) \in 1..3) =>
        new_trajectory.kind = "InvalidJointException"

\* C21: for every trajectory whose joint names contain wrist_extension and
\* at least one of the four segment names, merge_arm_joints raises
\* InvalidJointException.
C21VirtualPlusSegmentRejected ==
    (/\ MergeCalled
     /\ "wrist_extension" \in Range(trajectory.joint_names)
     /\ SegmentIndexes(trajectory.joint_names) # {}) =>
        new_trajectory.kind = "InvalidJointException"

\* merge_arm_joints has raised for a trajectory that names wrist_extension
\* and all four segments, once each.
C21VirtualWithAllSegments ==
    /\ MergeCalled
    /\ "wrist_extension" \in Range(trajectory.joint_names)
    /\ ArmSegments \subseteq Range(trajectory.joint_names)
    /\ Cardinality(ArmIndexes(trajectory.joint_names)) = 4
    /\ new_trajectory.kind = "InvalidJointException"

\* The trajectory has each of the four segment names once and not
\* wrist_extension.
ValidFourSegment(names) ==
    /\ Cardinality(SegmentIndexes(names)) = 4
    /\ ArmSegments \subseteq Range(names)
    /\ "wrist_extension" \notin Range(names)

\* values holds, for the joint at index last, the mean of the values that
\* supplied holds for the segments, and holds nothing for that joint when
\* supplied holds none for a segment.
MeanOfSupplied(values, last, supplied, names) ==
    LET given == {i \in SegmentIndexes(names) : i <= Len(supplied)}
    IN  IF given = {}
        THEN Len(values) < last
        ELSE /\ Len(values) >= last
             /\ values[last] = Average(supplied, given)

\* C22: in the trajectory merge_arm_joints returns for a valid 4-segment
\* trajectory, at every point, the velocity of wrist_extension is the mean
\* of the segment velocities the point supplies and is absent when it
\* supplies none; the same holds, independently, for the acceleration.
C22MergedVelocityIsMean ==
    (/\ MergeCalled
     /\ ValidFourSegment(trajectory.joint_names)
     /\ new_trajectory.kind = "returned") =>
        LET merged == new_trajectory.trajectory
            last == Len(merged.joint_names)
        IN  \A k \in 1..Len(merged.points) :
               /\ MeanOfSupplied(merged.points[k].velocities, last,
                                 trajectory.points[k].velocities,
                                 trajectory.joint_names)
               /\ MeanOfSupplied(merged.points[k].accelerations, last,
                                 trajectory.points[k].accelerations,
                                 trajectory.joint_names)

\* The indexes of the joints that are not one of the four segments.
OtherIndexes(names) == (1..Len(names)) \ SegmentIndexes(names)

\* The index of the j-th joint that is not a segment.
NthOther(names, j) ==
    CHOOSE i \in OtherIndexes(names) :
        Cardinality({h \in OtherIndexes(names) : h <= i}) = j

\* C23: when merge_arm_joints returns the merge of a valid 4-segment
\* trajectory, the joints that are not segments are in the result in the
\* order they had, each with the position it had at every point; the
\* result has as many points, each with the time offset it had; the
\* trajectory given is left as it was.
C23NonArmPassthrough ==
    [][(/\ new_trajectory = NotCalled
        /\ new_trajectory' # NotCalled
        /\ ValidFourSegment(trajectory.joint_names)
        /\ new_trajectory'.kind = "returned") =>
           LET names == trajectory.joint_names
               merged == new_trajectory'.trajectory
               others == Cardinality(OtherIndexes(names))
           IN  /\ trajectory' = trajectory
               /\ Len(merged.joint_names) = others + 1
               /\ \A j \in 1..others :
                     merged.joint_names[j] = names[NthOther(names, j)]
               /\ Len(merged.points) = Len(trajectory.points)
               /\ \A k \in 1..Len(trajectory.points) :
                     /\ merged.points[k].time_from_start =
                            trajectory.points[k].time_from_start
                     /\ \A j \in 1..others :
                           merged.points[k].positions[j] =
                              trajectory.points[k].positions[NthOther(names, j)]]_vars

\* merge_arm_joints has merged a two-point trajectory in which joint_lift
\* stands before the segments and joint_head_pan among them.
C23TwoOthersAmongSegments ==
    /\ MergeCalled
    /\ new_trajectory.kind = "returned"
    /\ ValidFourSegment(trajectory.joint_names)
    /\ Len(trajectory.joint_names) = 6
    /\ trajectory.joint_names[1] = "joint_lift"
    /\ trajectory.joint_names[4] = "joint_head_pan"
    /\ Len(trajectory.points) = 2
    /\ new_trajectory.trajectory.joint_names =
           <<"joint_lift", "joint_head_pan", "wrist_extension">>

\* The returned trajectory has drop joint names fewer than the trajectory
\* given, and every point as many positions fewer.
FewerJoints(drop) ==
    LET merged == new_trajectory.trajectory
    IN  /\ Len(merged.joint_names) = Len(trajectory.joint_names) - drop
        /\ Len(merged.points) = Len(trajectory.points)
        /\ \A k \in 1..Len(trajectory.points) :
              Len(merged.points[k].positions) =
                 Len(trajectory.points[k].positions) - drop

\* C24 (as the code has it): the merge of a valid 4-segment trajectory has
\* three joint names fewer than the input, and three positions fewer at
\* every point: four segments are replaced by one wrist_extension.
C24ThreeFewerJoints ==
    (/\ MergeCalled
     /\ ValidFourSegment(trajectory.joint_names)
     /\ new_trajectory.kind = "returned") => FewerJoints(3)

\* C24 (as stated): the merge of a valid 4-segment trajectory has exactly
\* one joint name fewer than the input, and one position fewer at every
\* point.
C24OneFewerJoint ==
    (/\ MergeCalled
     /\ ValidFourSegment(trajectory.joint_names)
     /\ new_trajectory.kind = "returned") => FewerJoints(1)

\* merge_arm_joints has merged a one-point trajectory of joint_lift and the
\* four segments into one of two joints.
C24FiveJointsToTwo ==
    /\ MergeCalled
    /\ new_trajectory.kind = "returned"
    /\ ValidFourSegment(trajectory.joint_names)
    /\ Len(trajectory.joint_names) = 5
    /\ "joint_lift" \in Range(trajectory.joint_names)
    /\ Len(trajectory.points) = 1
    /\ Len(new_trajectory.trajectory.joint_names) = 2
    /\ Len(new_trajectory.trajectory.points[1].positions) = 2

\* ------------------------------------------------ execute_cb, point loop
\* The frame at position p of the next state.
NextFrameAt(p) == stacks'[p[1]][p[2]]

\* C25: a point whose groups all report goal_reached right after its
\* setpoints were pushed is left without a pass of the poll loop (no timeout
\* test, no preemption test, no feedback, no spin_once): the goal goes on to
\* the next point, and after its last point it ends with SUCCESSFUL and its
\* handle succeeded.
C25AlreadySatisfiedGoal ==
    [][\A p \in FramePos :
          (/\ FrameAt(p).op = "goal"
           /\ FrameAt(p).pc = "poll"
           /\ FrameAt(p).all_reached
           /\ NextFrameAt(p).pc # "poll") =>
              IF FrameAt(p).pt < FrameAt(p).npts
              THEN /\ NextFrameAt(p).pc = "set_goal"
                   /\ NextFrameAt(p).pt = FrameAt(p).pt + 1
              ELSE /\ NextFrameAt(p).pc = "ret"
                   /\ NextFrameAt(p).exit = "success"
                   /\ result' = "SUCCESSFUL"
                   /\ hstatus'[FrameAt(p).g] = "succeeded"]_vars

\* Every group accepts update, but the names the groups claim are none or
\* not as many as the names commanded.
ClaimCountFails(names) ==
    /\ \A c \in GroupSet : GroupUpdate(c, names)
    /\ \/ SumOver(GroupSet, names) <= 0
       \/ SumOver(GroupSet, names) # Len(names)

\* C26: a goal on the point-by-point path whose joint names every group
\* accepts but whose claimed names are none, or fewer than the names
\* commanded, ends with INVALID_JOINTS before any set_goal and before any
\* command is pushed.
C26ClaimCountRejected ==
    \A p \in FramePos :
        (/\ FrameAt(p).op = "goal"
         /\ ClaimCountFails(FrameAt(p).names)
         /\ FrameAt(p).pc # "acq") =>
            /\ FrameAt(p).pc = "ret"
            /\ FrameAt(p).exit = "invalid_joints"
            /\ FrameAt(p).pushes = 0
            /\ ReturnedCode(FrameAt(p)) = "INVALID_JOINTS"

\* C27: a goal on the point-by-point path one of whose points a group
\* rejects in set_goal ends with INVALID_GOAL, and no command was pushed
\* for that point: the pushes made are those of the points before it.
C27SetGoalRejected ==
    \A p \in FramePos :
        (/\ FrameAt(p).op = "goal"
         /\ FrameAt(p).pc = "ret"
         /\ FrameAt(p).exit = "invalid_goal") =>
            /\ FrameAt(p).pushes = FrameAt(p).pt - 1
            /\ ReturnedCode(FrameAt(p)) = "INVALID_GOAL"

C29InOrderAdvance ==
    [][\A p \in FramePos :
          (FrameAt(p).op = "goal" /\ p[2] <= Len(stacks'[p[1]])) =>
              /\ NextFrameAt(p).pt # FrameAt(p).pt =>
                    /\ NextFrameAt(p).pt = FrameAt(p).pt + 1
                    /\ NextFrameAt(p).pc = "set_goal"
                    /\ \/ FrameAt(p).pc = "acq" /\ FrameAt(p).pt = 0
                       \/ /\ FrameAt(p).pc \in {"poll", "spin"}
                          /\ FrameAt(p).all_reached
              /\ (NextFrameAt(p).pc = "set_goal" /\ FrameAt(p).pc # "set_goal") =>
                    NextFrameAt(p).pt = FrameAt(p).pt + 1]_vars

\* A goal is about to call set_goal for its second point, some time after
\* its first point was pushed.
C29AdvancedToSecondPoint ==
    \E p \in FramePos :
        /\ FrameAt(p).op = "goal"
        /\ FrameAt(p).pc = "set_goal"
        /\ FrameAt(p).pt = 2
        /\ FrameAt(p).pushes = 1
        /\ FrameAt(p).all_reached
        /\ FrameAt(p).elapsed > 0

\* ------------------------------------------------ execute_trajectory
\* The joint names, once merged, hold a name that is no trajectory
\* component.
UnknownComponent(names) ==
    /\ ~MergeRaises(names)
    /\ \E i \in 1..Len(MergedNames(names)) :
          MergedNames(names)[i] \notin TrajectoryComponents

C31RuntimeFaultStopsPlayback ==
    [][\A p \in FramePos :
          (/\ FrameAt(p).op = "traj"
           /\ FrameAt(p).pc # "ret"
           /\ p[2] <= Len(stacks'[p[1]])
           /\ NextFrameAt(p).pc = "ret") =>
              IF \/ FrameAt(p).arg = "lengths_differ"
                 \/ MergeRaises(FrameAt(p).names)
                 \/ UnknownComponent(FrameAt(p).names)
              THEN /\ playing' = playing
                   /\ NextFrameAt(p).code \in {"INVALID_GOAL", "INVALID_JOINTS"}
              ELSE NextFrameAt(p).exit # "success" =>
                      /\ playing' = FALSE
                      /\ NextFrameAt(p).code = "UNKNOWN_ERROR"
                      /\ hstatus'[FrameAt(p).g] = "aborted"]_vars

\* The callbacks of the goal and timer paths that are between their
\* acquire_read and their release_read.
GoalOrTimerHolders ==
    {p \in FramePos : /\ FrameAt(p).op \in {"goal", "traj", "timer"}
                      /\ HoldsShared(FrameAt(p))}

\* C32: shared access is balanced on the goal and timer paths: every step
\* by which execute_cb, execute_trajectory or the periodic task leaves the
\* part between its acquire_read and its return, by whichever exit, gives
\* back the one shared access it took.
C32SharedAccessBalanced ==
    [][\A p \in GoalOrTimerHolders :
          (\/ p[2] > Len(stacks'[p[1]])
           \/ ~HoldsShared(NextFrameAt(p))) => num_r' = num_r - 1]_vars

\* C33: success only at the end, position path.  The handle of a goal
\* execution is marked succeeded only by the exit that follows the last
\* point: it is not succeeded while the execution is still setting a goal
\* or polling, and not after the execution ended by a timeout, a
\* preemption, a fatal fault or an exception.  (Stated for the first goal
\* the server executes, before any other goal has started.)
C33SuccessOnlyAtEnd ==
    \A p \in FramePos :
        (/\ ngoals = 1
         /\ FrameAt(p).op = "goal"
         /\ hstatus[FrameAt(p).g] = "succeeded") =>
            FrameAt(p).pc = "ret" /\ FrameAt(p).exit = "success"

\* C34: the result belongs to this goal.  The code a goal execution
\* returns is the code this same execution wrote: not one it never wrote
\* (the constructor's, or the one an earlier goal left in self.result) and
\* not one another execution wrote over it.  (Stated for the states in
\* which no other goal execution is under way; an execution that left by an
\* exception returns no result.)
C34ResultOfThisGoal ==
    \A p \in FramePos :
        (/\ IsGoal(FrameAt(p))
         /\ FrameAt(p).pc = "ret"
         /\ FrameAt(p).exit # "exception"
         /\ \A q \in FramePos : IsGoal(FrameAt(q)) => q = p) =>
            ReturnedCode(FrameAt(p)) = FrameAt(p).code

\* C35: no new motion after a stop, position path.  A goal execution that
\* was inside its poll loop when the stop flag was raised stages and pushes
\* no setpoint for a later point: from then on, in every step up to its
\* return, its count of pushed commands stays what it is.
C35NoMotionAfterStop ==
    [][\A p \in FramePos :
          (/\ FrameAt(p).op = "goal"
           /\ FrameAt(p).stopped
           /\ p[2] <= Len(stacks'[p[1]])) =>
              NextFrameAt(p).pushes = FrameAt(p).pushes]_vars

\* Every entry of values is the value of the joint at its index in the
\* merged names: before index last the value supplied holds for that joint,
\* at index last the mean of the values supplied holds for the segments.
EntriesAligned(values, last, supplied, names) ==
    \A i \in 1..Len(values) :
        IF i < last
        THEN /\ NthOther(names, i) <= Len(supplied)
             /\ values[i] = supplied[NthOther(names, i)]
        ELSE /\ i = last
             /\ \E h \in SegmentIndexes(names) : h <= Len(supplied)
             /\ values[i] = Average(supplied,
                                    {h \in SegmentIndexes(names) : h <= Len(supplied)})

\* C36: the merge keeps the index alignment: in the trajectory
\* merge_arm_joints returns for a valid 4-segment trajectory, at every
\* point, every velocity and every acceleration entry is the value of the
\* joint at the same index of the merged names, so that no joint is given
\* the velocity or the acceleration of another joint.
C36MergeKeepsAlignment ==
    (/\ MergeCalled
     /\ ValidFourSegment(trajectory.joint_names)
     /\ new_trajectory.kind = "returned") =>
        LET merged == new_trajectory.trajectory
            last == Len(merged.joint_names)
        IN  \A k \in 1..Len(merged.points) :
               /\ EntriesAligned(merged.points[k].velocities, last,
                                 trajectory.points[k].velocities,
                                 trajectory.joint_names)
               /\ EntriesAligned(merged.points[k].accelerations, last,
                                 trajectory.points[k].accelerations,
                                 trajectory.joint_names)

\* C37: the emergency stop is never blocked by the mode gate: no callback
\* that holds the stop lock is waiting for shared access the gate cannot
\* grant.
C37StopLockNotHeldAtGate ==
    \A p \in FramePos :
        (FrameAt(p).op = "traj" /\ FrameAt(p).pc = "x_acq" /\ stop_lock) =>
            CanAcquireRead

\* C38: the manipulation origin is set whenever it can be read: in every
\* state in which some callback holds shared access and the mode is
\* manipulation, turn_on_manipulation_mode has captured the origin.
C38OriginSetWhenReadable ==
    (/\ robot_mode = "manipulation"
     /\ \E p \in FramePos : HoldsShared(FrameAt(p))) => origin_set

\* C38 witness: a goal that started on the position path holds shared
\* access after a switch to manipulation mode, at the point where set_goal
\* is handed the origin, while the periodic task holds shared access too.
C38OriginReadAfterSwitch ==
    /\ robot_mode = "manipulation"
    /\ origin_set
    /\ \E p \in FramePos : FrameAt(p).op = "goal" /\ FrameAt(p).pc = "set_goal"
    /\ \E p \in FramePos : FrameAt(p).op = "timer" /\ FrameAt(p).pc = "t_body"

\* C39: the stop reaches every concurrent goal.  While a position-path
\* goal that was polling when the stop flag was raised is still inside its
\* poll loop, the flag stays raised: it is not consumed by another goal
\* that observed it first and not cleared by a goal that starts.
C39StopFlagKeptForPollers ==
    \A p \in FramePos :
        (/\ FrameAt(p).op = "goal"
         /\ FrameAt(p).stopped
         /\ InLoop(FrameAt(p))) => stop_the_robot

\* -------------------------------------------------- termination (fairness)
\* The node started with the default of its mode parameter (position),
\* after one callback was served and returned (the periodic task, say): a
\* state of Init with one callback counted.
LiveInit ==
    /\ stacks = [t \in Threads |-> <<>>]
    /\ robot_mode = "position"
    /\ origin_set = FALSE
    /\ num_r = 0
    /\ w_held = FALSE
    /\ stop_lock = FALSE
    /\ stop_the_robot = FALSE
    /\ goal_handle = 0
    /\ result = "SUCCESSFUL"
    /\ hstatus = [g \in GoalIds |-> "idle"]
    /\ playing = FALSE
    /\ velocity = 0
    /\ leaked = 0
    /\ ngoals = 0
    /\ ncalls = 1
    /\ trajectory = EmptyTrajectory
    /\ new_trajectory = NotCalled

\* The poll loop of the execute_cb on top of thread t ends at its next
\* test: the while test finds all groups reached, or the timeout test finds
\* the limit passed.  (What an iteration that stays in the loop finds, a
\* group reached or a fault, is left to the robot.)
LoopEnds(t) ==
    /\ ExecuteCbPoll(t)
    /\ \/ Top(t).all_reached
       \/ stacks'[t][Depth(t)].exit = "timeout"

\* The callback on top of thread t takes its next step.
ThreadStep(t) ==
    \/ ExecuteCbValidate(t)
    \/ ExecuteCbSetGoal(t)
    \/ LoopEnds(t)
    \/ ExecuteCbReturn(t)
    \/ TrajValidate(t)
    \/ TrajPoll(t)
    \/ ChangeModeAcquire(t)
    \/ ChangeModeRun(t)
    \/ TimerBody(t)
    \/ VelocityBody(t)

\* An executor thread whose callback can take a step takes it, and the
\* clock advances.
LiveSpec ==
    /\ LiveInit
    /\ [][Next]_vars
    /\ WF_vars(Tick)
    /\ \A t \in Threads : WF_vars(ThreadStep(t))

\* Goal g is executing on the position path, between its validation and
\* the end of its point loop.
Polling(g) ==
    \E p \in FramePos :
        /\ FrameAt(p).op = "goal"
        /\ FrameAt(p).g = g
        /\ FrameAt(p).pc \in {"set_goal", "poll", "spin"}

\* The execution of goal g is inside spin_once with a callback that
\* spin_once runs on top of it.
Yielded(g) ==
    \E p \in FramePos :
        /\ FrameAt(p).op = "goal"
        /\ FrameAt(p).g = g
        /\ p[2] < Len(stacks[p[1]])

\* C40: position-path termination.  With the clock advancing and the
\* executor threads running, every goal execution on the position path
\* leaves its point loop, unless a spin_once it called never returns: time
\* and again goal g is not in its point loop, or from some time on it stays
\* under a callback its spin_once is running.
C40PositionPathTerminates ==
    \A g \in GoalIds : []<>~Polling(g) \/ <>[]Yielded(g)

\* C40 witness: a goal whose last point was never reached has left its
\* poll loop through the timeout, after the clock passed the limit.
C40LeftByTimeout ==
    \E p \in FramePos :
        /\ FrameAt(p).op = "goal"
        /\ FrameAt(p).pc = "ret"
        /\ FrameAt(p).exit = "timeout"
        /\ FrameAt(p).elapsed > default_goal_timeout_s
        /\ ~FrameAt(p).all_reached
====
